---- MODULE Spec2Model ----
(***************************************************************************)
(* State-machine model of the landing-zone command line tool:              *)
(*   org_cli.py            launch, cleanup and the single-call commands    *)
(*   utils/org_helper.py   OrganizationHelper (accounts, OUs)              *)
(*   utils/cloudformation.py CloudFormationHelper (stack deployment)       *)
(* Every control-plane call the code issues is one step.  The control      *)
(* plane (AWS Organizations, STS, CloudFormation) is the environment: its  *)
(* answers are chosen nondeterministically among those its state allows.   *)
(* Text (exception messages, template names) is a sequence of words, so    *)
(* that Python's substring test `x in str(e)` is computed, not assumed.     *)
(***************************************************************************)
EXTENDS Integers, Sequences, FiniteSets, TLC

\* ------------------------------------------------------------- bounds
\* Most stages a configuration declares.
MaxStages == 2
\* Most accounts a configuration declares, over all its stages.
MaxAccounts == 2
\* Most command invocations in one behaviour.
MaxRuns == 2

\* ------------------------------------------------ program constants
\* _wait_for_account_creation(self, request_id, max_retries=20)
max_retries == 20
\* WaiterConfig={'Delay': 30, 'MaxAttempts': 30} of _wait_for_stack_operation
MaxAttempts == 30

\* deployment_order of launch
LaunchOrderReversed == <<"Infrastructure", "Security", "Logging">>
LaunchOrder == <<"Logging", "Security", "Infrastructure">>

\* deployment_order of cleanup
CleanupOrder == <<"Infrastructure", "Security", "Logging">>

\* template_map of launch, after `if isinstance(templates, str)`;
\* template_map.get(ou_type, []) for a name that is not a key.
LaunchTemplates(ou_type) ==
    CASE ou_type = "Logging" -> << <<"logging", ".yaml">> >>
      [] ou_type = "Security" -> << <<"security", ".yaml">> >>
      [] ou_type = "Infrastructure" ->
            << <<"vpc-base", ".yaml">>, <<"shared-services", ".yaml">> >>
      [] OTHER -> << >>

\* template_map of cleanup
CleanupTemplates(ou_type) ==
    CASE ou_type = "Logging" -> << <<"logging", ".yaml">> >>
      [] ou_type = "Security" -> << <<"security", ".yaml">> >>
      [] ou_type = "Infrastructure" ->
            << <<"vpc-base", ".yaml">>, <<"shared-services", ".yaml">> >>
      [] OTHER -> << >>

\* f"landing-zone-{template.replace('.yaml', '')}"
StackName(template) ==
    <<"landing-zone-">> \o SelectSeq(template, LAMBDA w : w # ".yaml")

\* error_messages of create_account
error_messages_keys ==
    {"EMAIL_ALREADY_EXISTS", "ACCOUNT_LIMIT_EXCEEDED", "INVALID_EMAIL",
     "INVALID_ADDRESS", "CONCURRENT_ACCOUNT_MODIFICATION"}

error_messages(reason) ==
    CASE reason = "EMAIL_ALREADY_EXISTS" ->
            <<"Email", "address", "is", "already", "in", "use">>
      [] reason = "ACCOUNT_LIMIT_EXCEEDED" ->
            <<"Account", "limit", "has", "been", "exceeded">>
      [] reason = "INVALID_EMAIL" ->
            <<"Invalid", "email", "address", "provided">>
      [] reason = "INVALID_ADDRESS" ->
            <<"Invalid", "address", "provided">>
      [] reason = "CONCURRENT_ACCOUNT_MODIFICATION" ->
            <<"Another", "account", "operation", "in", "progress">>

\* error_messages.get(status['FailureReason'], status['FailureReason'])
ErrorMsgGeneric(reason) ==
    IF reason \in error_messages_keys
        THEN error_messages(reason)
        ELSE <<"Account", "creation", "failed">>
ErrorMsg(reason) ==
    IF reason \in error_messages_keys THEN error_messages(reason) ELSE <<reason>>

\* ------------------------------------------------------------ text
\* Python's `needle in hay` on strings, at the level of words.
Contains(hay, needle) ==
    \E i \in 0..(Len(hay) - Len(needle)) :
        \A j \in 1..Len(needle) : hay[i + j] = needle[j]

NoUpdatesText == <<"No", "updates", "are", "to", "be", "performed">>
NotExistText == <<"does", "not", "exist">>

\* An exception in flight.  cond is what the control plane meant by it; the
\* code never reads cond, it reads only the type and the text.
Exc(type, code, op, msg, cond) ==
    [type |-> type, code |-> code, op |-> op, msg |-> msg, cond |-> cond]

ClientError(code, op, msg, cond) == Exc("ClientError", code, op, msg, cond)

NoExc == Exc("none", "", "", << >>, "")

\* str(e): botocore renders a ClientError as
\* "An error occurred (Code) when calling the Op operation: Message".
Str(e) ==
    IF e.type = "ClientError"
        THEN <<"An", "error", "occurred", "(", e.code, ")", "when", "calling",
               "the", e.op, "operation", ":">> \o e.msg
        ELSE e.msg

\* ----------------------------------------------------- identifiers
NoneId == <<"none", 0>>
RootId == <<"r", 1>>
ExtOuId == <<"ou", 0>>
Mgmt == <<"acct", 0>>
SharedAccountId == <<"acct", 1>>

\* Stage names a configuration may use: two that the tool knows (one with
\* one template, one with two; "Security" is handled exactly as "Logging")
\* and one it does not know.
StageNames == {"Logging", "Infrastructure", "Sandbox"}
ParentIds == {RootId, ExtOuId}
TemplateVersions == {"v1", "v2"}
TemplateFiles ==
    {<<"logging", ".yaml">>, <<"vpc-base", ".yaml">>}

\* ------------------------------------------------- configurations
\* configs/accounts.yaml: organizational_units maps a stage name to
\* {parent_id, accounts: [{name, email}]}, in the file's order.
Injective(s) == \A i, j \in DOMAIN s : i # j => s[i] # s[j]

RECURSIVE SumSeq(_)
SumSeq(s) == IF Len(s) = 0 THEN 0 ELSE Head(s) + SumSeq(Tail(s))

AccountNames(stage, n) == [i \in 1..n |-> <<stage, i>>]

\* The plans of n stages; the stages of a plan are put under one parent.
StagePlans(n) ==
    { [i \in 1..n |->
          [name |-> names[i], parent_id |-> parent,
           accounts |-> AccountNames(names[i], counts[i])]] :
        names \in {s \in [1..n -> StageNames] : Injective(s)},
        parent \in ParentIds,
        counts \in {c \in [1..n -> 0..MaxAccounts] : SumSeq(c) <= MaxAccounts} }

Configs ==
    { [has_ous |-> FALSE, organizational_units |-> << >>] }
    \cup { [has_ous |-> TRUE, organizational_units |-> p] :
             p \in UNION { StagePlans(n) : n \in 0..MaxStages } }

ConfigNames(c) ==
    { c.organizational_units[i].name : i \in DOMAIN c.organizational_units }

\* config["organizational_units"][ou_type]
OuConfig(c, ou_type) ==
    LET i == CHOOSE k \in DOMAIN c.organizational_units :
                 c.organizational_units[k].name = ou_type
    IN c.organizational_units[i]

\* ------------------------------------------------------------ state
VARIABLES
    config,          \* configs/accounts.yaml as loaded by yaml.safe_load
    templateVersion, \* the contents of the files under templates/
    ous,             \* control plane: organizational units
    accounts,        \* control plane: member accounts
    stacks,          \* control plane: CloudFormation stacks, per account
    proc,            \* the running command: its position and its locals
    calls,           \* the control-plane calls the command has issued
    stageResults,    \* progress tasks of launch / cleanup, one per stage
    errLog,          \* logger.error / console error lines of the command
    result,          \* how the command ended: exit code and exception
    ret,             \* last value a helper returned to its caller
    runs             \* command invocations so far

vars == <<config, templateVersion, ous, accounts, stacks, proc, calls,
          stageResults, errLog, result, ret, runs>>
envVars == <<ous, accounts, stacks>>

NoStatus == [State |-> "NONE", AccountId |-> NoneId, FailureReason |-> ""]
NoRet == [kind |-> "none", id |-> << >>, status |-> ""]

Idle(cmd) ==
    [cmd |-> cmd, pc |-> "idle", ouIdx |-> 0, acctIdx |-> 0, tmplIdx |-> 0,
     ou |-> NoneId, ca_name |-> << >>, ca_ou |-> NoneId, attempt |-> 0,
     status |-> NoStatus, account_id |-> NoneId, cfn |-> NoneId,
     ds_name |-> << >>, ds_body |-> << >>, operation |-> "",
     stack_id |-> << >>, current_parent |-> NoneId]

Running == [code |-> -1, error |-> NoExc]

\* The stage (ou_type) the loop of launch / cleanup is at.
CurStage ==
    CASE proc.cmd = "launch" /\ proc.ouIdx \in DOMAIN LaunchOrder ->
            LaunchOrder[proc.ouIdx]
      [] proc.cmd = "cleanup" /\ proc.ouIdx \in DOMAIN CleanupOrder ->
            CleanupOrder[proc.ouIdx]
      [] OTHER -> ""

\* A control-plane call: the operation, the principal it is issued as, its
\* arguments, how the control plane answered ("ok" or the error's cond), and
\* (for the record) the stage and account being handled.
Call(op, as, a, b, answer) ==
    [op |-> op, as |-> as, a |-> a, b |-> b, answer |-> answer,
     stage |-> CurStage, account |-> proc.account_id]

\* The call is issued and answered.
Issue(op, as, a, b, answer) == calls' = Append(calls, Call(op, as, a, b, answer))

Line(text, e) == [text |-> text, stage |-> CurStage, msg |-> Str(e)]

\* ------------------------------------------------ control plane
OuIds == {o.id : o \in ous}
AccountIds == {a.id : a \in accounts}

FreshId(kind, used) ==
    <<kind, CHOOSE n \in 1..(Cardinality(used) + 1) :
                /\ <<kind, n>> \notin used
                /\ \A k \in 1..(n - 1) : <<kind, k>> \in used>>

AccessDenied(op) ==
    ClientError("AccessDeniedException", op,
                <<"You", "don't", "have", "permissions">>, "Other")

Updatable == {"CREATE_COMPLETE", "UPDATE_COMPLETE", "UPDATE_ROLLBACK_COMPLETE"}

StackOf(acct, name) == {s \in stacks : s.acct = acct /\ s.name = name}

\* What update_stack can answer for the stack (acct, name) and this body.
UpdateStackErrors(acct, name, body) ==
    LET here == StackOf(acct, name) IN
    (IF here = {}
        THEN {ClientError("ValidationError", "UpdateStack",
                  <<"Stack", "[">> \o name \o <<"]", "does", "not", "exist">>,
                  "NotExist")}
        ELSE {})
    \cup {ClientError("ValidationError", "UpdateStack",
              <<"No", "updates", "are", "to", "be", "performed", ".">>,
              "NoUpdates") :
            s \in {t \in here : t.status \in Updatable /\ t.body = body}}
    \cup {ClientError("ValidationError", "UpdateStack",
              <<"Stack", "is", "in", s.status, "state", "and", "can", "not",
                "be", "updated">>, "Other") :
            s \in {t \in here : t.status \notin Updatable}}
    \cup {ClientError("AccessDenied", "UpdateStack",
              <<"User", "is", "not", "authorized", "to", "perform",
                "cloudformation:UpdateStack">>, "Other"),
          ClientError("AccessDenied", "UpdateStack",
              <<"The", "role", "of", "the", "caller", "does", "not",
                "exist">>, "Other")}

UpdateStackAccepted(acct, name, body) ==
    {s \in StackOf(acct, name) : s.status \in Updatable /\ s.body # body}

CreateStackErrors(acct, name) ==
    {ClientError("AlreadyExistsException", "CreateStack",
         <<"Stack", "[">> \o name \o <<"]", "already", "exists">>, "Other") :
       s \in StackOf(acct, name)}
    \cup {ClientError("AccessDenied", "CreateStack",
              <<"User", "is", "not", "authorized", "to", "perform",
                "cloudformation:CreateStack">>, "Other")}

\* FailureReason values of a FAILED CreateAccountStatus.
FailureReasons == error_messages_keys \cup {"INTERNAL_FAILURE"}

\* ------------------------------------------------ ending a command
\* The exception e leaves the helper (whose except clauses logged `lines`)
\* and reaches the command: launch and cleanup mark the stage failed, log
\* and exit 1; create-account prints the error and exits 1; a command
\* without a handler dies with the exception (exit 1).
RaiseSwallowedByStage(e, lines) ==
    /\ proc' = IF proc.cmd = "launch"
                  THEN [proc EXCEPT !.pc = "launch_stage"]
                  ELSE Idle(proc.cmd)
    /\ result' = IF proc.cmd = "launch" THEN result
                                        ELSE [code |-> 1, error |-> e]
    /\ errLog' = errLog \o lines \o
         (IF proc.cmd \in {"launch", "cleanup"}
             THEN <<[text |-> "Failed", stage |-> "", msg |-> e.msg]>>
             ELSE << >>)
    /\ stageResults' =
         IF proc.cmd \in {"launch", "cleanup"}
            THEN [stageResults EXCEPT ![Len(stageResults)].outcome = "Failed"]
            ELSE stageResults

Raise(e, lines) ==
    /\ proc' = Idle(proc.cmd)
    /\ result' = [code |-> 1, error |-> e]
    /\ errLog' = errLog \o lines \o
         (CASE proc.cmd = "launch" ->
                 <<Line("Failed to set up", e),
                   [Line("Landing zone deployment failed", e)
                       EXCEPT !.stage = ""]>>
            [] proc.cmd = "cleanup" ->
                 <<Line("Failed to clean up", e),
                   [Line("Cleanup failed", e) EXCEPT !.stage = ""]>>
            [] proc.cmd = "create_account" -> <<Line("Error", e)>>
            [] proc.cmd = "delete_account" ->
                 <<Line("Failed to delete account", e)>>
            [] OTHER -> << >>)
    /\ stageResults' =
         IF proc.cmd \in {"launch", "cleanup"}
            THEN [stageResults EXCEPT ![Len(stageResults)] =
                     [stage |-> CurStage, outcome |-> "Failed",
                      error |-> Str(e)]]
            ELSE stageResults

\* The command ends normally.
Finish ==
    /\ proc' = Idle(proc.cmd)
    /\ result' = [code |-> 0, error |-> NoExc]
    /\ UNCHANGED <<errLog, stageResults>>

Goto(p) == /\ proc' = p
           /\ UNCHANGED <<errLog, stageResults, result>>

\* progress.add_task(...) / progress.update(task_id, completed=True)
StageStarted(stage) ==
    Append(stageResults, [stage |-> stage, outcome |-> "Running", error |-> << >>])
StageLeftRunning == stageResults
StageCompleted ==
    [stageResults EXCEPT ![Len(stageResults)].outcome = "Success"]

\* ------------------------------------------------------------- Init
\* The organization before the tool is first run: the root, one OU that is
\* not a stage of any plan, and one member account in it.  No stacks.
Init ==
    /\ config \in Configs
    /\ templateVersion = "v1"
    /\ ous = {[id |-> ExtOuId, name |-> "Workloads", parent |-> RootId]}
    /\ accounts = {[id |-> SharedAccountId, name |-> <<"shared", 1>>,
                    parent |-> ExtOuId, state |-> "ACTIVE"]}
    /\ stacks = {}
    /\ proc = Idle("none")
    /\ calls = << >>
    /\ stageResults = << >>
    /\ errLog = << >>
    /\ result = Running
    /\ ret = NoRet
    /\ runs = 0

\* A new process: nothing is left of the previous one but the control plane.
Invoke ==
    /\ proc.pc = "idle"
    /\ runs < MaxRuns
    /\ runs' = runs + 1
    /\ calls' = << >>
    /\ ret' = NoRet
    /\ UNCHANGED <<config, envVars>>

\* ----------------------------------------------------------- launch
\* `if not config.get("organizational_units"):` (line 25): the key is
\* absent, or its value is empty.
ConfigMissingOnlyIfAbsent(c) == ~c.has_ous
ConfigMissing(c) == ~c.has_ous \/ Len(c.organizational_units) = 0

\* org_cli.py launch, lines 19-29: load the configuration, check it.
Launch ==
    /\ Invoke
    /\ stageResults' = << >>
    /\ UNCHANGED templateVersion
    /\ IF ConfigMissing(config)
          THEN LET e == Exc("ValueError", "", "",
                            <<"No", "organizational", "units", "defined",
                              "in", "config">>, "")
               IN /\ proc' = Idle("launch")
                  /\ result' = [code |-> 1, error |-> e]
                  /\ errLog' = <<[text |-> "Landing zone deployment failed",
                                  stage |-> "", msg |-> Str(e)]>>
          ELSE /\ proc' = [Idle("launch") EXCEPT !.pc = "launch_stage",
                                                 !.cfn = Mgmt]
               /\ result' = Running
               /\ errLog' = << >>

\* for ou_type in deployment_order (lines 40-45), and line 90 after it.
LaunchStage ==
    /\ proc.pc = "launch_stage"
    /\ UNCHANGED <<config, templateVersion, envVars, calls, ret, runs>>
    /\ IF proc.ouIdx = Len(LaunchOrder)
          THEN Finish
          ELSE LET ou_type == LaunchOrder[proc.ouIdx + 1] IN
               IF ou_type \notin ConfigNames(config)
                  THEN Goto([proc EXCEPT !.ouIdx = @ + 1])
                  ELSE /\ proc' = [proc EXCEPT !.ouIdx = @ + 1,
                                               !.pc = "create_ou"]
                       /\ stageResults' = StageStarted(ou_type)
                       /\ UNCHANGED <<errLog, result>>

\* org_helper.create_organizational_unit(ou_type, ou_config["parent_id"])
CreateOrganizationalUnit ==
    /\ proc.pc = "create_ou"
    /\ LET name == CurStage
           parent == OuConfig(config, name).parent_id
           new == FreshId("ou", OuIds \cup {ExtOuId})
           allowed == /\ parent \in OuIds \cup {RootId}
                      /\ ~\E o \in ous : o.name = name /\ o.parent = parent
       IN \/ /\ allowed
             /\ Issue("CreateOrganizationalUnit", Mgmt, name, parent, "ok")
             /\ ous' = ous \cup {[id |-> new, name |-> name, parent |-> parent]}
             /\ Goto([proc EXCEPT !.ou = new, !.acctIdx = 0,
                                  !.pc = "launch_account"])
          \/ /\ UNCHANGED ous
             /\ \E e \in {AccessDenied("CreateOrganizationalUnit")}
                     \cup (IF allowed THEN {} ELSE
                           {ClientError("DuplicateOrganizationalUnitException",
                                "CreateOrganizationalUnit",
                                <<"An", "OU", "with", "the", "same", "name",
                                  "already", "exists">>, "Other")}) :
                   /\ Issue("CreateOrganizationalUnit", Mgmt, name, parent, e.cond)
                   /\ Raise(e, << >>)
    /\ UNCHANGED <<config, templateVersion, accounts, stacks, ret, runs>>

\* for account in ou_config.get("accounts", []) (line 53), line 84 after it.
LaunchAccount ==
    /\ proc.pc = "launch_account"
    /\ UNCHANGED <<config, templateVersion, envVars, calls, ret, runs>>
    /\ LET accts == OuConfig(config, CurStage).accounts IN
       IF proc.acctIdx = Len(accts)
          THEN /\ proc' = [proc EXCEPT !.pc = "launch_stage"]
               /\ stageResults' = StageCompleted
               /\ UNCHANGED <<errLog, result>>
          ELSE Goto([proc EXCEPT !.acctIdx = @ + 1,
                                 !.ca_name = accts[proc.acctIdx + 1],
                                 !.ca_ou = proc.ou,
                                 !.pc = "create_account"])

\* ---------------------------------------------------- create_account
\* create_account returns status to its caller: launch goes on to deploy
\* (line 61: status['State'] == 'SUCCEEDED'), the command prints and ends.
CreateAccountReturns(status) ==
    /\ ret' = [kind |-> "account", id |-> status.AccountId,
               status |-> status.State]
    /\ IF proc.cmd = "launch"
          THEN IF status.State = "SUCCEEDED"
                  THEN Goto([proc EXCEPT !.status = status,
                                         !.account_id = status.AccountId,
                                         !.attempt = 0,
                                         !.tmplIdx = 0,
                                         !.pc = "launch_template"])
                  ELSE Goto([proc EXCEPT !.status = status, !.attempt = 0,
                                         !.pc = "launch_account"])
          ELSE Finish

CreateFailedLine(e) == <<Line("Failed to create account", e)>>

\* self.org_client.create_account(AccountName=name, Email=email)
CreateAccount ==
    /\ proc.pc = "create_account"
    /\ \/ /\ Issue("CreateAccount", Mgmt, proc.ca_name, NoneId, "ok")
          /\ Goto([proc EXCEPT !.attempt = 0, !.status = NoStatus,
                               !.pc = "poll"])
       \/ /\ Issue("CreateAccount", Mgmt, proc.ca_name, NoneId, "Other")
          /\ Raise(AccessDenied("CreateAccount"),
                   CreateFailedLine(AccessDenied("CreateAccount")))
    /\ UNCHANGED <<config, templateVersion, envVars, ret, runs>>

\* The statuses a describe_create_account_status call may report.
PollAnswers ==
    {[State |-> "IN_PROGRESS", AccountId |-> NoneId, FailureReason |-> ""]}
    \cup {[State |-> "FAILED", AccountId |-> NoneId, FailureReason |-> r] :
            r \in FailureReasons}
    \cup (IF \E a \in accounts : a.name = proc.ca_name
             THEN {}
             ELSE {[State |-> "SUCCEEDED",
                    AccountId |-> FreshId("acct", AccountIds \cup {Mgmt}),
                    FailureReason |-> ""]})

\* The loop's exit test: `if status['State'] in ['SUCCEEDED', 'FAILED']`.
Terminal(state) == state \in {"SUCCEEDED", "FAILED"}

\* `for _ in range(max_retries)`: may another poll follow `done` polls?
MorePollsOneMore(done) == done <= max_retries
MorePolls(done) == done < max_retries

\* How create_account goes on from the status the wait returned.
AfterWaitSkipsMove(status) ==
    IF status.State = "SUCCEEDED"
       THEN CreateAccountReturns(status)
       ELSE /\ Raise(Exc("Exception", "", "", ErrorMsg(status.FailureReason),
                         status.FailureReason), << >>)
            /\ UNCHANGED ret

AfterWait(status) ==
    IF status.State = "SUCCEEDED"
       THEN IF proc.ca_ou # NoneId
               THEN /\ Goto([proc EXCEPT !.status = status, !.attempt = 0,
                                         !.pc = "move_list_roots"])
                    /\ UNCHANGED ret
               ELSE CreateAccountReturns(status)
       ELSE /\ Raise(Exc("Exception", "", "", ErrorMsg(status.FailureReason),
                         status.FailureReason), << >>)
            /\ UNCHANGED ret

\* One iteration of _wait_for_account_creation, and what follows its return
\* or its TimeoutError in create_account (lines 61-87).  proc.attempt counts
\* the polls made (they are not entered in calls); proc.status is the
\* loop's local `status`.
Poll ==
    /\ proc.pc = "poll"
    /\ UNCHANGED <<config, templateVersion, ous, stacks, runs, calls>>
    /\ \/ \E status \in PollAnswers :
            /\ accounts' =
                 IF status.State = "SUCCEEDED"
                    THEN accounts \cup {[id |-> status.AccountId,
                                         name |-> proc.ca_name,
                                         parent |-> RootId,
                                         state |-> "ACTIVE"]}
                    ELSE accounts
            /\ IF Terminal(status.State)
                  THEN AfterWait(status)
                  ELSE /\ UNCHANGED ret
                       /\ IF MorePolls(proc.attempt + 1)
                             THEN Goto([proc EXCEPT !.attempt = @ + 1,
                                                    !.status = status])
                             ELSE Raise(Exc("TimeoutError", "", "",
                                            <<"Account", "creation", "timed",
                                              "out">>, "Timeout"), << >>)
       \/ /\ UNCHANGED <<accounts, ret>>
          /\ Raise(AccessDenied("DescribeCreateAccountStatus"),
                   CreateFailedLine(AccessDenied("DescribeCreateAccountStatus")))

\* SourceParentId=self._get_root_id(), evaluated before move_account is called.
MoveListRoots ==
    /\ proc.pc = "move_list_roots"
    /\ \/ /\ Issue("ListRoots", Mgmt, NoneId, NoneId, "ok")
          /\ Goto([proc EXCEPT !.pc = "move_account"])
       \/ /\ Issue("ListRoots", Mgmt, NoneId, NoneId, "Other")
          /\ Raise(AccessDenied("ListRoots"),
                   CreateFailedLine(AccessDenied("ListRoots")))
    /\ UNCHANGED <<config, templateVersion, envVars, ret, runs>>

\* self.org_client.move_account(...) of create_account, then `return status`.
MoveAccountIgnoresFailure ==
    /\ proc.pc = "move_account"
    /\ LET id == proc.status.AccountId
       IN \/ /\ proc.ca_ou \in OuIds
             /\ \E a \in accounts : a.id = id /\ a.parent = RootId
             /\ Issue("MoveAccount", Mgmt, id, proc.ca_ou, "ok")
             /\ accounts' = {IF a.id = id THEN [a EXCEPT !.parent = proc.ca_ou]
                                          ELSE a : a \in accounts}
             /\ CreateAccountReturns(proc.status)
          \/ /\ Issue("MoveAccount", Mgmt, id, proc.ca_ou, "Other")
             /\ UNCHANGED accounts
             /\ CreateAccountReturns(proc.status)
    /\ UNCHANGED <<config, templateVersion, ous, stacks, runs>>

MoveAccount ==
    /\ proc.pc = "move_account"
    /\ LET id == proc.status.AccountId
           e == ClientError("DestinationParentNotFoundException", "MoveAccount",
                    <<"The", "destination", "parent", "could", "not", "be",
                      "found">>, "Other")
       IN \/ /\ proc.ca_ou \in OuIds
             /\ \E a \in accounts : a.id = id /\ a.parent = RootId
             /\ Issue("MoveAccount", Mgmt, id, proc.ca_ou, "ok")
             /\ accounts' = {IF a.id = id THEN [a EXCEPT !.parent = proc.ca_ou]
                                          ELSE a : a \in accounts}
             /\ CreateAccountReturns(proc.status)
          \/ /\ Issue("MoveAccount", Mgmt, id, proc.ca_ou, "Other")
             /\ UNCHANGED <<accounts, ret>>
             /\ Raise(e, CreateFailedLine(e))
    /\ UNCHANGED <<config, templateVersion, ous, stacks, runs>>

\* ------------------------------------------------------ deploy_stack
\* The contents of a template file.
TemplateBody(template) == <<Head(template), templateVersion>>

\* for template in templates (lines 69-82): read the file, call deploy_stack.
LaunchTemplate ==
    /\ proc.pc = "launch_template"
    /\ UNCHANGED <<config, templateVersion, envVars, calls, ret, runs>>
    /\ LET templates == LaunchTemplates(CurStage) IN
       IF proc.tmplIdx = Len(templates)
          THEN Goto([proc EXCEPT !.pc = "launch_account"])
          ELSE LET template == templates[proc.tmplIdx + 1] IN
               \/ Goto([proc EXCEPT !.tmplIdx = @ + 1,
                                    !.ds_name = StackName(template),
                                    !.ds_body = TemplateBody(template),
                                    !.pc = "update_stack"])
               \/ Raise(Exc("FileNotFoundError", "", "",
                            <<"No", "such", "file">> \o template, ""), << >>)

\* deploy_stack returns to its caller: launch takes the next template, the
\* command echoes the result and ends.
DeployStackReturns(value) ==
    /\ ret' = value
    /\ IF proc.cmd = "launch"
          THEN Goto([proc EXCEPT !.operation = "", !.stack_id = << >>,
                                 !.pc = "launch_template"])
          ELSE Finish

DeployFailedLine(e) == Line("Failed to deploy stack", e)

\* The except clause of the update attempt (lines 52-66): which way a
\* ClientError of update_stack is taken.
UpdateErrorBranchNoCreate(e) ==
    IF Contains(Str(e), NoUpdatesText) THEN "no_updates" ELSE "raise"
UpdateErrorBranchNoShortcut(e) ==
    IF Contains(Str(e), NotExistText) THEN "create" ELSE "raise"
UpdateErrorBranch(e) ==
    IF Contains(Str(e), NoUpdatesText) THEN "no_updates"
    ELSE IF Contains(Str(e), NotExistText) THEN "create"
    ELSE "raise"

\* self.cfn.update_stack(...) and the handling of its error (lines 44-66).
UpdateStack ==
    /\ proc.pc = "update_stack"
    /\ UNCHANGED <<config, templateVersion, ous, accounts, runs>>
    /\ \/ \E s \in UpdateStackAccepted(proc.cfn, proc.ds_name, proc.ds_body) :
            /\ Issue("UpdateStack", proc.cfn, proc.ds_name, proc.ds_body, "ok")
            /\ stacks' = (stacks \ {s}) \cup
                   {[s EXCEPT !.status = "UPDATE_IN_PROGRESS",
                              !.prev = s.body, !.body = proc.ds_body]}
            /\ Goto([proc EXCEPT !.operation = "UPDATE",
                                 !.stack_id = <<proc.cfn, proc.ds_name>>,
                                 !.pc = "wait"])
            /\ UNCHANGED ret
       \/ \E e \in UpdateStackErrors(proc.cfn, proc.ds_name, proc.ds_body) :
            /\ Issue("UpdateStack", proc.cfn, proc.ds_name, proc.ds_body, e.cond)
            /\ UNCHANGED stacks
            /\ CASE UpdateErrorBranch(e) = "no_updates" ->
                      DeployStackReturns([kind |-> "stack", id |-> proc.ds_name,
                                          status |-> "NO_UPDATES_NEEDED"])
                 [] UpdateErrorBranch(e) = "create" ->
                      /\ Goto([proc EXCEPT !.pc = "create_stack"])
                      /\ UNCHANGED ret
                 [] OTHER ->
                      /\ Raise(e, <<DeployFailedLine(e), DeployFailedLine(e)>>)
                      /\ UNCHANGED ret

\* self.cfn.create_stack(...) inside the except clause (lines 58-63).
CreateStack ==
    /\ proc.pc = "create_stack"
    /\ UNCHANGED <<config, templateVersion, ous, accounts, ret, runs>>
    /\ \/ /\ StackOf(proc.cfn, proc.ds_name) = {}
          /\ Issue("CreateStack", proc.cfn, proc.ds_name, proc.ds_body, "ok")
          /\ stacks' = stacks \cup
                 {[acct |-> proc.cfn, name |-> proc.ds_name,
                   body |-> proc.ds_body, prev |-> proc.ds_body,
                   status |-> "CREATE_IN_PROGRESS"]}
          /\ Goto([proc EXCEPT !.operation = "CREATE",
                               !.stack_id = <<proc.cfn, proc.ds_name>>,
                               !.pc = "wait"])
       \/ /\ UNCHANGED stacks
          /\ \E e \in CreateStackErrors(proc.cfn, proc.ds_name) :
                /\ Issue("CreateStack", proc.cfn, proc.ds_name, proc.ds_body,
                         e.cond)
                /\ Raise(e, <<DeployFailedLine(e)>>)

\* self.cfn.get_waiter(f'stack_{operation.lower()}_complete')
WaiterNameOfCreate(operation) == "stack_create_complete"
WaiterName(operation) ==
    CASE operation = "CREATE" -> "stack_create_complete"
      [] operation = "UPDATE" -> "stack_update_complete"
      [] OTHER -> "stack__complete"

WaiterError(waiter, reason, cond) ==
    Exc("WaiterError", "", waiter,
        <<"Waiter", waiter, "failed", ":">> \o reason, cond)

\* The waiter gives up once it has made MaxAttempts attempts: may another
\* attempt follow `done` attempts?
MoreAttemptsOneMore(done) == done <= MaxAttempts
MoreAttempts(done) == done < MaxAttempts

\* _wait_for_stack_operation (lines 76-88), one attempt of the waiter: it
\* finds the stack complete (and returns), failed, or still in progress; in
\* progress it sleeps and tries again unless its attempts are used up.
\* proc.attempt counts the attempts made; the waiter's run is entered in
\* calls when it ends.
WaitStack ==
    /\ proc.pc = "wait"
    /\ UNCHANGED <<config, templateVersion, ous, accounts, ret, runs>>
    /\ \E s \in StackOf(proc.stack_id[1], proc.stack_id[2]) :
         LET waiter == WaiterName(proc.operation)
             failed == WaiterError(waiter, <<"Waiter", "encountered", "a",
                                            "terminal", "failure", "state">>,
                                   "TerminalFailure")
             timeout == WaiterError(waiter, <<"Max", "attempts", "exceeded">>,
                                    "MaxAttempts")
         IN \/ /\ Issue("Wait", proc.cfn, proc.stack_id, waiter, "ok")
               /\ stacks' = (stacks \ {s}) \cup
                      {[s EXCEPT !.status = IF proc.operation = "CREATE"
                                               THEN "CREATE_COMPLETE"
                                               ELSE "UPDATE_COMPLETE",
                                 !.prev = s.body]}
               /\ Goto([proc EXCEPT !.attempt = 0, !.pc = "describe"])
            \/ /\ Issue("Wait", proc.cfn, proc.stack_id, waiter, failed.cond)
               /\ stacks' = (stacks \ {s}) \cup
                      {[s EXCEPT !.status = IF proc.operation = "CREATE"
                                               THEN "ROLLBACK_COMPLETE"
                                               ELSE "UPDATE_ROLLBACK_COMPLETE",
                                 !.body = s.prev]}
               /\ Raise(failed, <<Line("Stack operation failed", failed)>>)
            \/ /\ UNCHANGED stacks
               /\ IF MoreAttempts(proc.attempt + 1)
                     THEN /\ Goto([proc EXCEPT !.attempt = @ + 1])
                          /\ UNCHANGED calls
                     ELSE /\ Issue("Wait", proc.cfn, proc.stack_id, waiter,
                                   timeout.cond)
                          /\ Raise(timeout,
                                   <<Line("Stack operation failed", timeout)>>)

\* _get_stack_status (lines 90-93) and the return of deploy_stack.
DescribeStacks ==
    /\ proc.pc = "describe"
    /\ UNCHANGED <<config, templateVersion, envVars, runs>>
    /\ \/ \E s \in StackOf(proc.stack_id[1], proc.stack_id[2]) :
            /\ Issue("DescribeStacks", proc.cfn, proc.stack_id, NoneId, "ok")
            /\ DeployStackReturns([kind |-> "stack", id |-> proc.stack_id,
                                   status |-> s.status])
       \/ /\ Issue("DescribeStacks", proc.cfn, proc.stack_id, NoneId, "Other")
          /\ UNCHANGED ret
          /\ LET e == ClientError("AccessDenied", "DescribeStacks",
                          <<"User", "is", "not", "authorized", "to", "perform",
                            "cloudformation:DescribeStacks">>, "Other")
             IN Raise(e, <<DeployFailedLine(e)>>)

\* ---------------------------------------------------------- cleanup
\* org_cli.py cleanup, lines 242-250: config["organizational_units"] is
\* first read by the loop's membership test; a missing key is a KeyError.
Cleanup ==
    /\ Invoke
    /\ stageResults' = << >>
    /\ UNCHANGED templateVersion
    /\ IF ~config.has_ous
          THEN LET e == Exc("KeyError", "", "", <<"'organizational_units'">>, "")
               IN /\ proc' = Idle("cleanup")
                  /\ result' = [code |-> 1, error |-> e]
                  /\ errLog' = <<[text |-> "Cleanup failed", stage |-> "",
                                  msg |-> Str(e)]>>
          ELSE /\ proc' = [Idle("cleanup") EXCEPT !.pc = "cleanup_stage"]
               /\ result' = Running
               /\ errLog' = << >>

\* for ou_type in deployment_order (lines 257-263), and line 297 after it.
CleanupStage ==
    /\ proc.pc = "cleanup_stage"
    /\ UNCHANGED <<config, templateVersion, envVars, calls, ret, runs>>
    /\ IF proc.ouIdx = Len(CleanupOrder)
          THEN Finish
          ELSE LET ou_type == CleanupOrder[proc.ouIdx + 1] IN
               IF ou_type \notin ConfigNames(config)
                  THEN Goto([proc EXCEPT !.ouIdx = @ + 1])
                  ELSE /\ proc' = [proc EXCEPT !.ouIdx = @ + 1, !.acctIdx = 0,
                                               !.pc = "cleanup_account"]
                       /\ stageResults' = StageStarted(ou_type)
                       /\ UNCHANGED <<errLog, result>>

\* for account in ou_config.get("accounts", []) (line 266); after the loop,
\* get_ou_id_by_name begins with _get_root_id.
CleanupAccount ==
    /\ proc.pc = "cleanup_account"
    /\ UNCHANGED <<config, templateVersion, envVars, calls, ret, runs>>
    /\ LET accts == OuConfig(config, CurStage).accounts IN
       IF proc.acctIdx = Len(accts)
          THEN Goto([proc EXCEPT !.account_id = NoneId, !.cfn = NoneId,
                                 !.pc = "ou_list_roots"])
          ELSE Goto([proc EXCEPT !.acctIdx = @ + 1,
                                 !.ca_name = accts[proc.acctIdx + 1],
                                 !.account_id = NoneId, !.cfn = NoneId,
                                 !.pc = "list_accounts"])

\* `if account_id:` (line 277) with no account of that name: nothing is done
\* for the account, the loop takes the next one.
AccountAbsentIsAnError ==
    Raise(Exc("Exception", "", "", <<"Account", "not", "found">>, "NotFound"),
          << >>)
AccountAbsent == Goto([proc EXCEPT !.pc = "cleanup_account"])

\* get_account_id_by_name (lines 177-187) and `if account_id:` (line 277).
ListAccounts ==
    /\ proc.pc = "list_accounts"
    /\ UNCHANGED <<config, templateVersion, envVars, ret, runs>>
    /\ \/ /\ Issue("ListAccounts", Mgmt, proc.ca_name, NoneId, "ok")
          /\ LET found == {a \in accounts : a.name = proc.ca_name} IN
             IF found = {}
                THEN AccountAbsent
                ELSE \E a \in found :
                        Goto([proc EXCEPT !.account_id = a.id,
                                          !.pc = "assume_role"])
       \/ /\ Issue("ListAccounts", Mgmt, proc.ca_name, NoneId, "Other")
          /\ Raise(AccessDenied("ListAccounts"),
                   <<Line("Failed to get account ID",
                          AccessDenied("ListAccounts"))>>)

\* CloudFormationHelper(region, role_arn) (cloudformation.py lines 11-30):
\* sts.assume_role into the account.  In cleanup the constructor is followed
\* by `cfn.delete_stack(stack_name)` for the first template of the stage:
\* CloudFormationHelper defines no delete_stack, so that is an
\* AttributeError; with no template for the stage, delete_account is next.
AssumeRole ==
    /\ proc.pc = "assume_role"
    /\ UNCHANGED <<config, templateVersion, envVars, ret, runs>>
    /\ \/ /\ \E a \in accounts : a.id = proc.account_id /\ a.state = "ACTIVE"
          /\ Issue("AssumeRole", Mgmt, proc.account_id, NoneId, "ok")
          /\ IF proc.cmd = "cleanup"
                THEN IF Len(CleanupTemplates(CurStage)) > 0
                        THEN Raise(Exc("AttributeError", "", "",
                                       <<"'CloudFormationHelper'", "object", "has",
                                         "no", "attribute", "'delete_stack'">>, ""),
                                   << >>)
                        ELSE Goto([proc EXCEPT !.cfn = proc.account_id,
                                               !.pc = "delete_list_roots"])
                ELSE Goto([proc EXCEPT !.cfn = proc.account_id,
                                       !.pc = "update_stack"])
       \/ /\ Issue("AssumeRole", Mgmt, proc.account_id, NoneId, "Other")
          /\ LET e == ClientError("AccessDenied", "AssumeRole",
                          <<"User", "is", "not", "authorized", "to", "perform",
                            "sts:AssumeRole">>, "Other")
             IN Raise(e, << >>)

\* get_ou_id_by_name (lines 189-202): root_id = self._get_root_id()
OuListRoots ==
    /\ proc.pc = "ou_list_roots"
    /\ UNCHANGED <<config, templateVersion, envVars, ret, runs>>
    /\ \/ /\ Issue("ListRoots", Mgmt, NoneId, NoneId, "ok")
          /\ Goto([proc EXCEPT !.pc = "list_ous"])
       \/ /\ Issue("ListRoots", Mgmt, NoneId, NoneId, "Other")
          /\ Raise(AccessDenied("ListRoots"),
                   <<Line("Failed to get OU ID", AccessDenied("ListRoots"))>>)

\* The OUs list_organizational_units_for_parent(ParentId=root_id) returns.
OusListed == {o \in ous : o.parent = RootId}

\* get_ou_id_by_name, the listing and the scan; `if ou_id:` (line 288);
\* with no OU of that name the stage is complete (line 291).
ListOus ==
    /\ proc.pc = "list_ous"
    /\ UNCHANGED <<config, templateVersion, envVars, ret, runs>>
    /\ \/ /\ Issue("ListOrganizationalUnitsForParent", Mgmt, CurStage, RootId,
                   "ok")
          /\ LET found == {o \in OusListed : o.name = CurStage} IN
             IF found = {}
                THEN /\ proc' = [proc EXCEPT !.pc = "cleanup_stage"]
                     /\ stageResults' = StageCompleted
                     /\ UNCHANGED <<errLog, result>>
                ELSE \E o \in found :
                        Goto([proc EXCEPT !.ou = o.id, !.pc = "delete_ou"])
       \/ /\ Issue("ListOrganizationalUnitsForParent", Mgmt, CurStage, RootId,
                   "Other")
          /\ Raise(AccessDenied("ListOrganizationalUnitsForParent"),
                   <<Line("Failed to get OU ID",
                          AccessDenied("ListOrganizationalUnitsForParent"))>>)

\* delete_organizational_unit (lines 166-175), then line 291.
DeleteOrganizationalUnit ==
    /\ proc.pc = "delete_ou"
    /\ UNCHANGED <<config, templateVersion, accounts, stacks, ret, runs>>
    /\ LET empty == /\ ~\E a \in accounts : a.parent = proc.ou
                    /\ ~\E o \in ous : o.parent = proc.ou
           e == IF empty
                   THEN AccessDenied("DeleteOrganizationalUnit")
                   ELSE ClientError("OrganizationalUnitNotEmptyException",
                            "DeleteOrganizationalUnit",
                            <<"The", "OU", "is", "not", "empty">>, "Other")
       IN \/ /\ empty
             /\ Issue("DeleteOrganizationalUnit", Mgmt, proc.ou, NoneId, "ok")
             /\ ous' = {o \in ous : o.id # proc.ou}
             /\ proc' = [proc EXCEPT !.ou = NoneId, !.pc = "cleanup_stage"]
             /\ stageResults' = StageCompleted
             /\ UNCHANGED <<errLog, result>>
          \/ /\ Issue("DeleteOrganizationalUnit", Mgmt, proc.ou, NoneId, "Other")
             /\ UNCHANGED ous
             /\ Raise(e, <<Line("Failed to delete OU", e)>>)

\* --------------------------------------------------- delete_account
DeleteFailedLine(e) == <<Line("Failed to delete account", e)>>

\* delete_account (line 149): root_id = self._get_root_id()
DeleteListRoots ==
    /\ proc.pc = "delete_list_roots"
    /\ UNCHANGED <<config, templateVersion, envVars, ret, runs>>
    /\ \/ /\ Issue("ListRoots", Mgmt, NoneId, NoneId, "ok")
          /\ Goto([proc EXCEPT !.pc = "list_parents"])
       \/ /\ Issue("ListRoots", Mgmt, NoneId, NoneId, "Other")
          /\ Raise(AccessDenied("ListRoots"),
                   DeleteFailedLine(AccessDenied("ListRoots")))

\* `if current_parent != root_id:` (line 152)
NeedsMoveNever(current_parent, root_id) == FALSE
NeedsMove(current_parent, root_id) == current_parent # root_id

\* delete_account (line 150): current_parent = list_parents(...)[0]['Id'],
\* and the test of line 152.
ListParents ==
    /\ proc.pc = "list_parents"
    /\ UNCHANGED <<config, templateVersion, envVars, ret, runs>>
    /\ \/ \E a \in accounts :
            /\ a.id = proc.account_id
            /\ Issue("ListParents", Mgmt, proc.account_id, NoneId, "ok")
            /\ Goto([proc EXCEPT !.current_parent = a.parent,
                                 !.pc = IF NeedsMove(a.parent, RootId)
                                           THEN "delete_move"
                                           ELSE "close_account"])
       \/ /\ Issue("ListParents", Mgmt, proc.account_id, NoneId, "Other")
          /\ Raise(AccessDenied("ListParents"),
                   DeleteFailedLine(AccessDenied("ListParents")))

\* delete_account (lines 153-157): move_account from current_parent to root.
DeleteMoveAccount ==
    /\ proc.pc = "delete_move"
    /\ UNCHANGED <<config, templateVersion, ous, stacks, ret, runs>>
    /\ \/ /\ \E a \in accounts :
                a.id = proc.account_id /\ a.parent = proc.current_parent
          /\ Issue("MoveAccount", Mgmt, proc.account_id, RootId, "ok")
          /\ accounts' = {IF a.id = proc.account_id
                             THEN [a EXCEPT !.parent = RootId]
                             ELSE a : a \in accounts}
          /\ Goto([proc EXCEPT !.pc = "close_account"])
       \/ /\ Issue("MoveAccount", Mgmt, proc.account_id, RootId, "Other")
          /\ UNCHANGED accounts
          /\ Raise(AccessDenied("MoveAccount"),
                   DeleteFailedLine(AccessDenied("MoveAccount")))

\* delete_account (lines 160-161): close_account and the return; cleanup
\* takes the next account, the command reports and ends.
CloseAccount ==
    /\ proc.pc = "close_account"
    /\ UNCHANGED <<config, templateVersion, ous, stacks, runs>>
    /\ LET closable == \E a \in accounts :
                           a.id = proc.account_id /\ a.state = "ACTIVE"
           e == IF closable
                   THEN AccessDenied("CloseAccount")
                   ELSE ClientError("AccountAlreadyClosedException",
                            "CloseAccount",
                            <<"The", "account", "is", "already", "closed">>,
                            "Other")
       IN \/ /\ closable
             /\ Issue("CloseAccount", Mgmt, proc.account_id, NoneId, "ok")
             /\ accounts' = {IF a.id = proc.account_id
                                THEN [a EXCEPT !.state = "SUSPENDED"]
                                ELSE a : a \in accounts}
             /\ ret' = [kind |-> "closed", id |-> proc.account_id,
                        status |-> ""]
             /\ IF proc.cmd = "cleanup"
                   THEN Goto([proc EXCEPT !.pc = "cleanup_account"])
                   ELSE Finish
          \/ /\ Issue("CloseAccount", Mgmt, proc.account_id, NoneId, "Other")
             /\ UNCHANGED <<accounts, ret>>
             /\ Raise(e, DeleteFailedLine(e))

\* ------------------------------------------------ single-call commands
\* org_cli.py delete_account (lines 206-220).
DeleteAccountCmd ==
    /\ Invoke
    /\ \E id \in AccountIds :
          proc' = [Idle("delete_account") EXCEPT !.account_id = id,
                                                 !.pc = "delete_list_roots"]
    /\ result' = Running
    /\ errLog' = << >>
    /\ stageResults' = << >>
    /\ UNCHANGED templateVersion

\* org_cli.py create_account (lines 113-128): name, email and optional OU.
CreateAccountCmd ==
    /\ Invoke
    /\ \E name \in {<<"sandbox", 1>>, <<"sandbox", 2>>}, ou_id \in {NoneId, ExtOuId} :
          proc' = [Idle("create_account") EXCEPT !.ca_name = name,
                                                 !.ca_ou = ou_id,
                                                 !.pc = "create_account"]
    /\ result' = Running
    /\ errLog' = << >>
    /\ stageResults' = << >>
    /\ UNCHANGED templateVersion

\* org_cli.py deploy_stack (lines 130-149): read the template, build the
\* helper for the account's role, deploy.
DeployStackCmd ==
    /\ Invoke
    /\ \E id \in AccountIds, template \in TemplateFiles :
          proc' = [Idle("deploy_stack") EXCEPT !.account_id = id,
                                               !.ds_name = StackName(template),
                                               !.ds_body = TemplateBody(template),
                                               !.pc = "assume_role"]
    /\ result' = Running
    /\ errLog' = << >>
    /\ stageResults' = << >>
    /\ UNCHANGED templateVersion

\* Between two commands the template files may be edited.
EditTemplate ==
    /\ proc.pc = "idle"
    /\ \E v \in TemplateVersions \ {templateVersion} : templateVersion' = v
    /\ UNCHANGED <<config, envVars, proc, calls, stageResults, errLog, result,
                   ret, runs>>

\* ------------------------------------------------------ specifications
CreateAccountSteps == CreateAccount \/ Poll \/ MoveListRoots \/ MoveAccount
DeployStackSteps == UpdateStack \/ CreateStack \/ WaitStack \/ DescribeStacks
DeleteAccountSteps ==
    DeleteListRoots \/ ListParents \/ DeleteMoveAccount \/ CloseAccount

\* launch and cleanup, over the configurations.
Next ==
    \/ Launch \/ LaunchStage \/ CreateOrganizationalUnit \/ LaunchAccount
    \/ LaunchTemplate
    \/ CreateAccountSteps
    \/ DeployStackSteps
    \/ Cleanup \/ CleanupStage \/ CleanupAccount \/ ListAccounts \/ AssumeRole
    \/ OuListRoots \/ ListOus \/ DeleteOrganizationalUnit

Spec == Init /\ [][Next]_vars

\* The single-call commands create-account and deploy-stack.
InitCli ==
    /\ Init
    /\ config = [has_ous |-> FALSE, organizational_units |-> << >>]

NextCli ==
    \/ CreateAccountCmd \/ DeployStackCmd \/ DeleteAccountCmd \/ EditTemplate
    \/ CreateAccountSteps
    \/ AssumeRole
    \/ DeployStackSteps
    \/ DeleteAccountSteps

CliSpec == InitCli /\ [][NextCli]_vars

\* cleanup alone, on an organization in which launch has set up the first
\* n stages of the plan (all of them, or those before the stage it failed
\* at): their OUs, their accounts moved into the OUs, and their stacks, which
\* launch deploys with the caller's own credentials.
LaunchedStages(c, n) ==
    {name \in ConfigNames(c) :
        /\ \E i \in DOMAIN LaunchOrder : LaunchOrder[i] = name
        /\ Cardinality({m \in ConfigNames(c) :
               \E i, j \in DOMAIN LaunchOrder :
                  /\ LaunchOrder[i] = m /\ LaunchOrder[j] = name
                  /\ i <= j}) <= n}

LaunchedOuId(name) ==
    <<"ou", CHOOSE i \in DOMAIN LaunchOrder : LaunchOrder[i] = name>>

LaunchedAccountId(name, k) ==
    <<"acct", 1 + k + MaxAccounts *
                 (CHOOSE i \in DOMAIN LaunchOrder : LaunchOrder[i] = name)>>

InitLaunched ==
    /\ config \in Configs
    /\ templateVersion = "v1"
    /\ \E n \in 0..Len(config.organizational_units) :
         LET done == LaunchedStages(config, n) IN
         /\ ous = {[id |-> ExtOuId, name |-> "Workloads", parent |-> RootId]}
                \cup {[id |-> LaunchedOuId(name), name |-> name,
                       parent |-> OuConfig(config, name).parent_id] :
                        name \in done}
         /\ accounts =
                {[id |-> SharedAccountId, name |-> <<"shared", 1>>,
                  parent |-> ExtOuId, state |-> "ACTIVE"]}
                \cup UNION {
                     {[id |-> LaunchedAccountId(name, k),
                       name |-> OuConfig(config, name).accounts[k],
                       parent |-> LaunchedOuId(name), state |-> "ACTIVE"] :
                        k \in DOMAIN OuConfig(config, name).accounts} :
                     name \in done}
         /\ stacks =
                UNION {
                  {[acct |-> Mgmt, name |-> StackName(LaunchTemplates(name)[t]),
                    body |-> <<Head(LaunchTemplates(name)[t]), "v1">>,
                    prev |-> <<Head(LaunchTemplates(name)[t]), "v1">>,
                    status |-> "CREATE_COMPLETE"] :
                     t \in DOMAIN LaunchTemplates(name)} :
                  name \in {m \in done :
                              Len(OuConfig(config, m).accounts) > 0}}
    /\ proc = Idle("none")
    /\ calls = << >>
    /\ stageResults = << >>
    /\ errLog = << >>
    /\ result = Running
    /\ ret = NoRet
    /\ runs = 0

NextCleanup ==
    \/ Cleanup \/ CleanupStage \/ CleanupAccount \/ ListAccounts \/ AssumeRole
    \/ OuListRoots \/ ListOus \/ DeleteOrganizationalUnit

CleanupSpec == InitLaunched /\ [][NextCleanup]_vars

\* ============================================================ claims
StackOps == {"UpdateStack", "CreateStack", "Wait", "DescribeStacks"}

Ended(cmd) == proc.pc = "idle" /\ proc.cmd = cmd /\ result.code \in {0, 1}

\* The position at which the configuration declares a stage.
PlanPos(name) ==
    CHOOSE i \in DOMAIN config.organizational_units :
        config.organizational_units[i].name = name

\* The tool's own order of the stages it knows.
Rank(name) ==
    CASE name = "Logging" -> 1
      [] name = "Security" -> 2
      [] name = "Infrastructure" -> 3
      [] OTHER -> 0

Processed == {stageResults[i].stage : i \in DOMAIN stageResults}

C2_FailFast ==
    proc.cmd = "launch" =>
      /\ \A i \in DOMAIN stageResults :
            stageResults[i].outcome = "Failed" =>
              /\ i = Len(stageResults)
              /\ proc.pc = "idle"
              /\ result.code = 1
              /\ stageResults[i].error = Str(result.error)
              /\ \A k \in DOMAIN calls :
                    Rank(calls[k].stage) <= Rank(stageResults[i].stage)
      /\ \A k \in DOMAIN calls :
            calls[k].answer # "ok" /\ calls[k].op # "UpdateStack" =>
              /\ k = Len(calls)
              /\ proc.pc = "idle"
              /\ result.code = 1
              /\ stageResults[Len(stageResults)].outcome = "Failed"
              /\ stageResults[Len(stageResults)].stage = calls[k].stage
      /\ result.error.type \notin {"none", "ValueError"} =>
            /\ result.code = 1
            /\ proc.pc = "idle"
            /\ stageResults[Len(stageResults)].outcome = "Failed"
      /\ result.error.cond = "ACCOUNT_LIMIT_EXCEEDED" =>
            stageResults[Len(stageResults)].error =
                <<"Account", "limit", "has", "been", "exceeded">>

\* The first of two accounts of Logging fails with ACCOUNT_LIMIT_EXCEEDED
\* while Infrastructure is still to come.
C2_Witness ==
    /\ Ended("launch") /\ result.code = 1
    /\ result.error.cond = "ACCOUNT_LIMIT_EXCEEDED"
    /\ Len(stageResults) = 1
    /\ stageResults[1].stage = "Logging"
    /\ stageResults[1].outcome = "Failed"
    /\ "Infrastructure" \in ConfigNames(config)
    /\ Len(OuConfig(config, "Logging").accounts) = 2
    /\ Cardinality({k \in DOMAIN calls : calls[k].op = "CreateAccount"}) = 1

\* C3 as stated: in launch every stack call made for an account is issued
\* acting as that account, never as the management account.
C3_DeployActsAsAccount ==
    proc.cmd = "launch" =>
      \A k \in DOMAIN calls :
          calls[k].op \in StackOps =>
            /\ calls[k].as = calls[k].account
            /\ calls[k].as # Mgmt

\* The last CreateAccount call before call k (0 if none).
CreateBefore(k) ==
    LET before == {j \in 1..(k - 1) : calls[j].op = "CreateAccount"}
    IN IF before = {} THEN 0
       ELSE CHOOSE j \in before : \A i \in before : i <= j

\* C4: in launch a stack call is issued only for an account whose creation
\* succeeded and which was relocated: the account named in the last
\* CreateAccount call exists, it was moved into the OU of the stage by a
\* MoveAccount call that was answered ok, and it is there.
C4_DeployOnlyAfterSuccess ==
    proc.cmd = "launch" =>
      \A k \in DOMAIN calls :
          calls[k].op \in StackOps =>
            /\ CreateBefore(k) > 0
            /\ \E a \in accounts :
                  /\ a.id = calls[k].account
                  /\ a.name = calls[CreateBefore(k)].a
                  /\ \E o \in ous : o.id = a.parent /\ o.name = calls[k].stage
                  /\ \E j \in (CreateBefore(k) + 1)..(k - 1) :
                        /\ calls[j].op = "MoveAccount"
                        /\ calls[j].answer = "ok"
                        /\ calls[j].a = a.id
                        /\ calls[j].b = a.parent

\* A launch has created a stack after the account was created and moved.
C4_Witness ==
    /\ proc.cmd = "launch"
    /\ \E k \in DOMAIN calls :
          /\ calls[k].op = "CreateStack" /\ calls[k].answer = "ok"
          /\ \E j \in 1..(k - 1) :
                calls[j].op = "MoveAccount" /\ calls[j].answer = "ok"

\* C5: deploy_stack for a stack that does not exist: the update attempt
\* comes first; the update answered "does not exist" is followed by one
\* create_stack for the same stack and body, and by no second one; a
\* create_stack is only ever issued right after a refused update; the error
\* the command ends with is never the update's "does not exist".
C5_UpdateThenCreate ==
    /\ \A k \in DOMAIN calls :
          calls[k].op = "UpdateStack" /\ calls[k].answer = "NotExist" =>
            IF k = Len(calls)
               THEN proc.pc = "create_stack"
               ELSE /\ calls[k + 1].op = "CreateStack"
                    /\ calls[k + 1].as = calls[k].as
                    /\ calls[k + 1].a = calls[k].a
                    /\ calls[k + 1].b = calls[k].b
                    /\ k + 2 \in DOMAIN calls => calls[k + 2].op # "CreateStack"
    /\ \A k \in DOMAIN calls :
          calls[k].op = "CreateStack" =>
            /\ k > 1
            /\ calls[k - 1].op = "UpdateStack"
            /\ calls[k - 1].answer # "ok"
    /\ \A k \in DOMAIN calls :
          calls[k].op = "Wait" =>
            /\ k > 1
            /\ calls[k - 1].op \in {"UpdateStack", "CreateStack"}
            /\ calls[k - 1].answer = "ok"
    /\ result.error.cond # "NotExist"
    /\ result.error.op = "UpdateStack" =>
          ~Contains(Str(result.error), NotExistText)

\* deploy-stack on an account without the stack: update refused with "does
\* not exist", the stack created, the command ended with CREATE_COMPLETE.
C5_Witness ==
    /\ Ended("deploy_stack") /\ result.code = 0
    /\ ret.status = "CREATE_COMPLETE"
    /\ \E k \in DOMAIN calls :
          /\ calls[k].op = "UpdateStack" /\ calls[k].answer = "NotExist"
          /\ calls[k + 1].op = "CreateStack" /\ calls[k + 1].answer = "ok"

\* C6 as stated: an update refused for a reason that is neither "does not
\* exist" nor "no updates", whatever the text of the error, is the last call
\* of deploy_stack (no create_stack, no wait, no describe) and is the error
\* the caller gets.
C6_OtherUpdateErrorPropagates ==
    \A k \in DOMAIN calls :
        calls[k].op = "UpdateStack" /\ calls[k].answer = "Other" =>
          /\ k = Len(calls)
          /\ proc.pc = "idle"
          /\ result.code = 1
          /\ result.error.op = "UpdateStack"
          /\ result.error.cond = "Other"

\* The stack (acct, name) exists, is complete and has this body.
StackUnchanged(acct, name, body) ==
    \E s \in StackOf(acct, name) : s.status \in Updatable /\ s.body = body

\* C7: an update attempt with the body the existing, complete stack already
\* has is never accepted and leaves the stacks as they are; answered "no
\* updates are to be performed", deploy_stack returns NO_UPDATES_NEEDED for
\* the stack at once: the one update call is all it issued, the command ends
\* with exit code 0.
C7_Idempotent ==
    [][ (/\ proc.cmd = "deploy_stack"
         /\ proc.pc = "update_stack"
         /\ StackUnchanged(proc.cfn, proc.ds_name, proc.ds_body))
        => /\ stacks' = stacks
           /\ Len(calls') = Len(calls) + 1
           /\ calls'[Len(calls')].op = "UpdateStack"
           /\ calls'[Len(calls')].answer # "ok"
           /\ calls'[Len(calls')].answer = "NoUpdates" =>
                 /\ ret' = [kind |-> "stack", id |-> proc.ds_name,
                            status |-> "NO_UPDATES_NEEDED"]
                 /\ proc'.pc = "idle"
                 /\ result' = [code |-> 0, error |-> NoExc]
                 /\ errLog' = errLog ]_vars

\* The second deploy-stack of the same template to the same account.
C7_Witness ==
    /\ Ended("deploy_stack") /\ result.code = 0
    /\ runs = 2
    /\ ret.status = "NO_UPDATES_NEEDED"
    /\ Len(calls) = 2
    /\ calls[2].op = "UpdateStack" /\ calls[2].answer = "NoUpdates"
    /\ \E s \in stacks : /\ s.acct = calls[2].as /\ s.name = calls[2].a
                          /\ s.body = calls[2].b /\ s.status = "CREATE_COMPLETE"

\* C8: the wait for an account polls at most max_retries (20) times: while
\* it polls, fewer than 20 polls are behind it, each poll that does not end
\* the wait adds one to the count and saw neither SUCCEEDED nor FAILED; the
\* wait ends in a TimeoutError exactly when the twentieth poll sees no
\* terminal state; that error is of another type and text than the error
\* of a FAILED creation.
C8_PollingBounded ==
    [][ proc.pc = "poll"
        => /\ proc.attempt < 20
           /\ proc'.pc = "poll" =>
                 /\ proc'.attempt = proc.attempt + 1
                 /\ proc'.attempt < 20
                 /\ proc'.status.State \notin {"SUCCEEDED", "FAILED"}
           /\ result'.error.type = "TimeoutError" <=>
                 /\ proc.attempt = 19
                 /\ proc'.pc = "idle"
                 /\ result'.code = 1
                 /\ result'.error.cond = "Timeout"
           /\ result'.error.cond \in FailureReasons =>
                 /\ result'.error.type = "Exception"
                 /\ Str(result'.error) # <<"Account", "creation", "timed", "out">>
           /\ result'.error.type = "TimeoutError" =>
                 Str(result'.error) = <<"Account", "creation", "timed", "out">>
      ]_vars

\* create-account has ended in the timeout.
C8_Witness ==
    /\ Ended("create_account") /\ result.code = 1
    /\ result.error.type = "TimeoutError"
    /\ calls[Len(calls)].op = "CreateAccount"

\* C9: a creation that ended FAILED makes create_account raise (exit code
\* 1) with the table's message for the five mapped reasons and with the
\* reason itself for any other; no move_account (and no lookup of the root
\* for it) follows the creation request; create_account never returns a
\* FAILED status.
C9_FailureClassified ==
    /\ ret.status # "FAILED"
    /\ result.error.cond \in FailureReasons =>
          /\ proc.pc = "idle"
          /\ result.code = 1
          /\ result.error.type = "Exception"
          /\ ret.kind # "account"
          /\ result.error.cond = "EMAIL_ALREADY_EXISTS" =>
                Contains(Str(result.error), <<"already", "in", "use">>)
          /\ result.error.cond = "ACCOUNT_LIMIT_EXCEEDED" =>
                Str(result.error) = <<"Account", "limit", "has", "been", "exceeded">>
          /\ result.error.cond \in error_messages_keys =>
                Str(result.error) = error_messages(result.error.cond)
          /\ result.error.cond \notin error_messages_keys =>
                Str(result.error) = <<result.error.cond>>
          /\ calls[Len(calls)].op = "CreateAccount"
          /\ calls[Len(calls)].answer = "ok"

\* create-account has ended on a FAILED creation whose reason is not in the
\* table.
C9_Witness ==
    /\ Ended("create_account") /\ result.code = 1
    /\ result.error.cond = "INTERNAL_FAILURE"
    /\ Str(result.error) = <<"INTERNAL_FAILURE">>

\* C10 as stated: when the creation succeeded and the move into the OU was
\* refused, the outcome is not reported as a failure to create the account
\* and carries the id of the account.
C10_RelocationFailureDistinct ==
    \A k \in DOMAIN calls :
        calls[k].op = "MoveAccount" /\ calls[k].answer # "ok" =>
          /\ \A i \in DOMAIN errLog : errLog[i].text # "Failed to create account"
          /\ ret.kind = "account"
          /\ ret.id = calls[k].a

\* C11: in cleanup, a lookup that finds no account of the name does nothing
\* else: it is the only call of the step, no stack, account or OU changes,
\* no error is recorded, and the loop goes on (to the next account, or to
\* the stage's OU); a lookup that finds no OU of the stage's name issues no
\* deletion and completes the stage as a success.
C11_AbsentIsSkipped ==
    [][ /\ (/\ proc.cmd = "cleanup"
            /\ proc.pc = "list_accounts"
            /\ ~\E a \in accounts : a.name = proc.ca_name
            /\ calls'[Len(calls')].answer = "ok")
           => /\ Len(calls') = Len(calls) + 1
              /\ calls'[Len(calls')].op = "ListAccounts"
              /\ proc'.pc = "cleanup_account"
              /\ proc'.acctIdx = proc.acctIdx
              /\ <<ous', accounts', stacks'>> = <<ous, accounts, stacks>>
              /\ <<result', errLog', stageResults'>> =
                    <<result, errLog, stageResults>>
        /\ (/\ proc.cmd = "cleanup"
            /\ proc.pc = "list_ous"
            /\ ~\E o \in OusListed : o.name = CurStage
            /\ calls'[Len(calls')].answer = "ok")
           => /\ Len(calls') = Len(calls) + 1
              /\ calls'[Len(calls')].op = "ListOrganizationalUnitsForParent"
              /\ proc'.pc = "cleanup_stage"
              /\ <<ous', accounts', stacks'>> = <<ous, accounts, stacks>>
              /\ <<result', errLog'>> = <<result, errLog>>
              /\ stageResults'[Len(stageResults')].outcome = "Success"
      ]_vars

\* A cleanup of a plan with an account, on an organization that has neither
\* the account nor the OU, has ended in success with the two lookups only.
C11_Witness ==
    /\ Ended("cleanup") /\ result.code = 0
    /\ Len(stageResults) = 1 /\ stageResults[1].outcome = "Success"
    /\ Len(OuConfig(config, stageResults[1].stage).accounts) = 1
    /\ \E k \in DOMAIN calls : calls[k].op = "ListAccounts"
    /\ \A k \in DOMAIN calls :
          calls[k].op \in {"ListAccounts", "ListRoots",
                           "ListOrganizationalUnitsForParent"}

\* C16: delete_account requests the closure of an account only while the
\* account's parent is the root.  After the parent is looked up, an account
\* under the root goes to the closure with no move, any other account to a
\* move from that parent to the root; a move that is refused ends the call
\* in an error with no closure requested.
C16_CloseOnlyAtRoot ==
    [][ /\ (Len(calls') > Len(calls) /\ calls'[Len(calls')].op = "CloseAccount")
           => /\ proc.pc = "close_account"
              /\ \A a \in accounts :
                    a.id = calls'[Len(calls')].a => a.parent = RootId
              /\ \A k \in DOMAIN calls :
                    calls[k].op = "MoveAccount" =>
                       /\ calls[k].answer = "ok"
                       /\ calls[k].a = calls'[Len(calls')].a
                       /\ calls[k].b = RootId
        /\ (proc.pc = "list_parents" /\ calls'[Len(calls')].answer = "ok")
           => \A a \in accounts :
                 a.id = proc.account_id =>
                    /\ a.parent = RootId => proc'.pc = "close_account"
                    /\ a.parent # RootId =>
                          /\ proc'.pc = "delete_move"
                          /\ proc'.current_parent = a.parent
        /\ (proc.pc = "delete_move" /\ calls'[Len(calls')].answer # "ok")
           => /\ proc'.pc = "idle"
              /\ result'.code = 1
              /\ accounts' = accounts
              /\ \A k \in DOMAIN calls' : calls'[k].op # "CloseAccount"
      ]_vars

\* delete-account has closed an account that it first moved to the root.
C16_Witness ==
    /\ Ended("delete_account") /\ result.code = 0
    /\ \E k \in DOMAIN calls :
          /\ calls[k].op = "MoveAccount" /\ calls[k].answer = "ok"
          /\ calls[k + 1].op = "CloseAccount" /\ calls[k + 1].answer = "ok"
          /\ \E a \in accounts : /\ a.id = calls[k].a
                                  /\ a.parent = RootId
                                  /\ a.state = "SUSPENDED"

\* C12 as stated: a cleanup started after an earlier cleanup of the same plan
\* (here every command is a cleanup) ends in overall success whenever the
\* control plane refused none of its calls.
C12_CleanupRerunnable ==
    (/\ Ended("cleanup")
     /\ runs > 1
     /\ config.has_ous
     /\ \A k \in DOMAIN calls : calls[k].answer = "ok")
    => result.code = 0

\* C13 as stated: in cleanup, once the id of an account is resolved and its
\* role assumed, a stack deletion is requested as that account for every
\* template of the stage, before the account's closure; a cleanup whose
\* calls the control plane all accepted ends with every stage a success.
C13_StacksDeletedBeforeClosure ==
    proc.cmd = "cleanup" =>
      /\ \A k \in DOMAIN calls :
            (/\ calls[k].op = "AssumeRole"
             /\ calls[k].answer = "ok"
             /\ proc.pc \in {"idle", "cleanup_account"}) =>
               \A t \in DOMAIN CleanupTemplates(calls[k].stage) :
                  \E j \in DOMAIN calls :
                     /\ j > k
                     /\ calls[j].op = "DeleteStack"
                     /\ calls[j].as = calls[k].a
                     /\ calls[j].a = StackName(CleanupTemplates(calls[k].stage)[t])
      /\ (/\ Ended("cleanup")
          /\ config.has_ous
          /\ \A k \in DOMAIN calls : calls[k].answer = "ok") =>
            /\ result.code = 0
            /\ \A i \in DOMAIN stageResults : stageResults[i].outcome = "Success"

\* C14: launch on a configuration whose organizational_units is absent or
\* empty has ended at once: exit code 1 with the configuration error "No
\* organizational units defined in config", overall failure logged, no
\* control-plane call issued and no stage started.
C14_EmptyConfigFailsFast ==
    (/\ proc.cmd = "launch"
     /\ (~config.has_ous \/ config.organizational_units = << >>))
    => /\ proc.pc = "idle"
       /\ result.code = 1
       /\ result.error.type = "ValueError"
       /\ Str(result.error) =
             <<"No", "organizational", "units", "defined", "in", "config">>
       /\ calls = << >>
       /\ stageResults = << >>
       /\ Len(errLog) = 1
       /\ errLog[1].text = "Landing zone deployment failed"

\* launch has ended on a configuration whose organizational_units is empty.
C14_Witness ==
    /\ Ended("launch")
    /\ config.has_ous /\ config.organizational_units = << >>
    /\ result.error.type = "ValueError"

\* The calls issued while the stage `name` was being handled.
CallsOf(name) == {k \in DOMAIN calls : calls[k].stage = name}

C17_WaitBounded ==
    [][ proc.pc = "wait"
        => /\ proc.attempt < 30
           /\ proc'.pc = "wait" =>
                 /\ proc'.attempt = proc.attempt + 1
                 /\ proc'.attempt < 30
                 /\ UNCHANGED <<stacks, calls, result>>
           /\ result'.error.cond = "MaxAttempts" <=>
                 /\ proc.attempt = 29
                 /\ proc'.pc = "idle"
                 /\ UNCHANGED stacks
                 /\ result'.code = 1
                 /\ calls'[Len(calls')].op = "Wait"
                 /\ calls'[Len(calls')].answer = "MaxAttempts"
           /\ result'.error.cond = "MaxAttempts" =>
                 /\ result'.error.type = "WaiterError"
                 /\ Contains(Str(result'.error), <<"Max", "attempts", "exceeded">>)
                 /\ ~Contains(Str(result'.error), <<"terminal", "failure", "state">>)
           /\ result'.error.cond = "TerminalFailure" =>
                 /\ result'.error.type = "WaiterError"
                 /\ result'.code = 1
                 /\ Contains(Str(result'.error), <<"terminal", "failure", "state">>)
                 /\ ~Contains(Str(result'.error), <<"Max", "attempts", "exceeded">>)
                 /\ \E s \in stacks' :
                       /\ <<s.acct, s.name>> = proc.stack_id
                       /\ s.status \in {"ROLLBACK_COMPLETE",
                                        "UPDATE_ROLLBACK_COMPLETE"}
      ]_vars

\* deploy-stack has ended in the waiter's timeout.
C17_Witness ==
    /\ Ended("deploy_stack") /\ result.code = 1
    /\ result.error.cond = "MaxAttempts"
    /\ calls[Len(calls)].op = "Wait"

\* C18: in deploy_stack every accepted update_stack or create_stack is
\* followed by the waiter of that operation (stack_update_complete after an
\* update, stack_create_complete after a create) on the stack just submitted,
\* under the same credentials, and a waiter runs only then; describe_stacks
\* is called only right after a waiter that reported completion, on the same
\* stack, and what deploy_stack then returns is what it answers; a waiter
\* that fails is the last call of the command, which ends with the waiter's
\* error (exit code 1) and returns nothing.
C18_WaitThenDescribe ==
    \A k \in DOMAIN calls :
        /\ calls[k].op \in {"UpdateStack", "CreateStack"} /\ calls[k].answer = "ok"
              => IF k = Len(calls)
                    THEN /\ proc.pc = "wait"
                         /\ proc.operation = IF calls[k].op = "CreateStack"
                                                THEN "CREATE" ELSE "UPDATE"
                    ELSE calls[k + 1].op = "Wait"
        /\ calls[k].op = "Wait"
              => /\ k > 1
                 /\ calls[k - 1].op \in {"UpdateStack", "CreateStack"}
                 /\ calls[k - 1].answer = "ok"
                 /\ calls[k].b = IF calls[k - 1].op = "CreateStack"
                                    THEN "stack_create_complete"
                                    ELSE "stack_update_complete"
                 /\ calls[k].a = <<calls[k - 1].as, calls[k - 1].a>>
                 /\ calls[k].as = calls[k - 1].as
        /\ calls[k].op = "Wait" /\ calls[k].answer = "ok"
              => IF k = Len(calls)
                    THEN proc.pc = "describe" /\ proc.stack_id = calls[k].a
                    ELSE calls[k + 1].op = "DescribeStacks"
        /\ calls[k].op = "DescribeStacks"
              => /\ k > 1
                 /\ calls[k - 1].op = "Wait"
                 /\ calls[k - 1].answer = "ok"
                 /\ calls[k].a = calls[k - 1].a
                 /\ calls[k].as = calls[k - 1].as
        /\ calls[k].op = "DescribeStacks" /\ calls[k].answer = "ok"
           /\ k = Len(calls) /\ proc.cmd = "deploy_stack"
              => /\ Ended("deploy_stack") /\ result.code = 0
                 /\ ret.kind = "stack" /\ ret.id = calls[k].a
                 /\ ret.status \in {"CREATE_COMPLETE", "UPDATE_COMPLETE"}
        /\ calls[k].op = "Wait" /\ calls[k].answer # "ok"
              => /\ k < Len(calls) => calls[k + 1].op # "DescribeStacks"
                 /\ k = Len(calls) =>
                       /\ proc.pc = "idle" /\ result.code = 1
                       /\ result.error.type = "WaiterError"
                       /\ result.error.cond = calls[k].answer
                       /\ result.error.op = calls[k].b
                       /\ ret.kind # "stack"

\* deploy-stack has updated a stack: update_stack accepted, the update
\* waiter reported completion, describe_stacks answered.
C18_Witness ==
    /\ Ended("deploy_stack") /\ result.code = 0
    /\ Len(calls) >= 3
    /\ calls[Len(calls) - 2].op = "UpdateStack"
    /\ calls[Len(calls) - 1].op = "Wait"
    /\ calls[Len(calls) - 1].b = "stack_update_complete"
    /\ calls[Len(calls)].op = "DescribeStacks"
    /\ ret.status = "UPDATE_COMPLETE"

\* C19: the step with which create-account ends in success returns the
\* SUCCEEDED record of an account that is in the organization once, under
\* one parent.  Given an OU id, that step is the accepted move_account of
\* the account into that OU: before it the account was under the root,
\* after it under the OU, and no account was added or lost.  Given none,
\* the parent is the root and no move_account was issued for the account.
C19_OneParent ==
    [][ /\ proc.cmd = "create_account" /\ proc.pc # "idle"
        /\ proc'.pc = "idle" /\ result'.code = 0
        => /\ ret'.kind = "account" /\ ret'.status = "SUCCEEDED"
           /\ Cardinality({a \in accounts' : a.id = ret'.id}) = 1
           /\ \A a \in accounts' :
                 a.id = ret'.id =>
                    /\ a.state = "ACTIVE"
                    /\ a.parent = IF proc.ca_ou # NoneId THEN proc.ca_ou
                                                         ELSE RootId
           /\ proc.ca_ou # NoneId =>
                 /\ calls'[Len(calls')] =
                       Call("MoveAccount", Mgmt, ret'.id, proc.ca_ou, "ok")
                 /\ Len(calls') = Len(calls) + 1
                 /\ \E a \in accounts : a.id = ret'.id /\ a.parent = RootId
                 /\ Cardinality(accounts') = Cardinality(accounts)
                 /\ {a.id : a \in accounts'} = AccountIds
           /\ proc.ca_ou = NoneId =>
                 \A k \in DOMAIN calls' :
                    calls'[k].op = "MoveAccount" => calls'[k].a # ret'.id
      ]_vars

\* create-account with an OU id has ended in success: the account it
\* returned is under that OU.
C19_Witness ==
    /\ Ended("create_account") /\ result.code = 0
    /\ ret.kind = "account" /\ ret.status = "SUCCEEDED"
    /\ calls[Len(calls)].op = "MoveAccount"
    /\ calls[Len(calls)].b = ExtOuId
    /\ \E a \in accounts : a.id = ret.id /\ a.parent = ExtOuId

\* C20 as stated: a launch that ended in success has created the OU of every
\* stage of the plan, whatever its name, exactly once; a cleanup that ended
\* in success has looked up every account and the OU of every stage of the
\* plan.
C20_EveryStageProcessed ==
    /\ Ended("launch") /\ result.code = 0 =>
          \A n \in ConfigNames(config) :
             Cardinality({k \in DOMAIN calls :
                             /\ calls[k].op = "CreateOrganizationalUnit"
                             /\ calls[k].a = n}) = 1
    /\ Ended("cleanup") /\ result.code = 0 =>
          \A n \in ConfigNames(config) :
             /\ \E k \in DOMAIN calls :
                   /\ calls[k].op = "ListOrganizationalUnitsForParent"
                   /\ calls[k].a = n
             /\ \A i \in DOMAIN OuConfig(config, n).accounts :
                   \E k \in DOMAIN calls :
                      /\ calls[k].op = "ListAccounts"
                      /\ calls[k].a = OuConfig(config, n).accounts[i]

\* C21 as stated: in cleanup, when the lookup of a stage's OU has been
\* answered and an OU of the stage's name exists in the organization, under
\* the root or under another OU, the lookup has found it: its id is the one
\* cleanup goes on to delete.
C21_ExistingOuIsFound ==
    /\ proc.cmd = "cleanup" /\ config.has_ous /\ Len(calls) > 0
    /\ calls[Len(calls)].op = "ListOrganizationalUnitsForParent"
    /\ calls[Len(calls)].answer = "ok"
    /\ \E o \in ous : o.name = calls[Len(calls)].a
    => /\ proc.pc = "delete_ou"
       /\ \E o \in ous : o.name = calls[Len(calls)].a /\ o.id = proc.ou

\* C22 as stated: a cleanup that has ended on a configuration whose
\* organizational_units is absent or empty has failed (exit code 1), has
\* logged the failure, and has issued no call.
C22_CleanupEmptyConfigFails ==
    Ended("cleanup") /\ ConfigMissing(config)
    => /\ result.code = 1
       /\ Len(errLog) > 0
       /\ calls = << >>

====
